---- MODULE Spec2Model ----
(***************************************************************************)
(* Model of crawl.cpp: a libcurl-multi web crawler that follows the links  *)
(* of pages under the start URL, records the link topology in a graph and  *)
(* reports the non-200 responses as broken links.                          *)
(*                                                                         *)
(* strncmp, strlen, strstr and the URI functions are computed on the       *)
(* characters of the strings.                                              *)
(***************************************************************************)
EXTENDS Integers, Sequences, FiniteSets, TLC

(***************************************************************************)
(* Bounds of the model                                                     *)
(***************************************************************************)
\* -r / --max-requests is tried with 1 and with this value
MaxRequestsArg == 2
\* -t / --max-total is tried with 1 and with this value
MaxTotalArg == 2
\* -m / --max-link-per-page is tried with 0 and with this value
MaxLinkArg == 1
\* largest number of <a href> attributes on one page
MaxHrefs == 2

(***************************************************************************)
(* Texts.  The state holds C strings by name (a TLA+ string); Chars gives  *)
(* the characters of every string that occurs, and the string functions    *)
(* are computed on the characters.                                         *)
(***************************************************************************)
Chars ==
    ("http://" :> <<"h","t","t","p",":","/","/">>) @@
    ("https://" :> <<"h","t","t","p","s",":","/","/">>) @@
    ("text/html" :> <<"t","e","x","t","/","h","t","m","l">>) @@
    ("http://a.example.org/" :> <<"h","t","t","p",":","/","/","a",".","e","x","a","m","p","l","e",".","o","r","g","/">>) @@
    ("http://a.example.org/a" :> <<"h","t","t","p",":","/","/","a",".","e","x","a","m","p","l","e",".","o","r","g","/","a">>) @@
    ("http://a.example.org/b" :> <<"h","t","t","p",":","/","/","a",".","e","x","a","m","p","l","e",".","o","r","g","/","b">>) @@
    ("http://a.example.org/c" :> <<"h","t","t","p",":","/","/","a",".","e","x","a","m","p","l","e",".","o","r","g","/","c">>) @@
    ("http://b.example.org/x" :> <<"h","t","t","p",":","/","/","b",".","e","x","a","m","p","l","e",".","o","r","g","/","x">>) @@
    ("http://b.example.org/a" :> <<"h","t","t","p",":","/","/","b",".","e","x","a","m","p","l","e",".","o","r","g","/","a">>) @@
    ("a#f" :> <<"a","#","f">>) @@
    ("mailto:x@a.example.org" :> <<"m","a","i","l","t","o",":","x","@","a",".","e","x","a","m","p","l","e",".","o","r","g">>) @@
    ("text/html; charset=utf-8" :> <<"t","e","x","t","/","h","t","m","l",";"," ","c","h","a","r","s","e","t","=","u","t","f","-","8">>) @@
    ("application/xhtml+xml" :> <<"a","p","p","l","i","c","a","t","i","o","n","/","x","h","t","m","l","+","x","m","l">>) @@
    ("" :> <<>>)

\* the string with the characters t
Name(t) == CHOOSE s \in DOMAIN Chars : Chars[s] = t

\* strlen(s)
StrLen(s) == Len(Chars[s])

\* strncmp(s, p, strlen(p)) == 0
StartsWith(s, p) == LET cs == Chars[s]
                        cp == Chars[p]
                    IN Len(cs) >= Len(cp) /\ SubSeq(cs, 1, Len(cp)) = cp

\* strstr(s, t) != NULL
StrStr(s, t) == LET cs == Chars[s]
                    ct == Chars[t]
                IN \E i \in 1..(Len(cs) - Len(ct) + 1) : SubSeq(cs, i, i + Len(ct) - 1) = ct

\* position of the first occurrence of character c in the characters t, 0 when absent
IndexOf(t, c) == IF \E i \in 1..Len(t) : t[i] = c
                 THEN CHOOSE i \in 1..Len(t) : t[i] = c /\ \A j \in 1..(i-1) : t[j] # c
                 ELSE 0

\* position of the last occurrence of character c in the characters t, 0 when absent
LastIndexOf(t, c) == IF \E i \in 1..Len(t) : t[i] = c
                     THEN CHOOSE i \in 1..Len(t) : t[i] = c /\ \A j \in (i+1)..Len(t) : t[j] # c
                     ELSE 0

\* a reference with a scheme ("name:" before any "/" or "#") is absolute
IsAbsolute(t) == LET c == IndexOf(t, ":")
                     s == IndexOf(t, "/")
                     f == IndexOf(t, "#")
                 IN c > 1 /\ (s = 0 \/ c < s) /\ (f = 0 \/ c < f)

\* the characters of a URI with the fragment and the "#" before it removed
StripFragment(t) == LET f == IndexOf(t, "#")
                    IN IF f = 0 THEN t ELSE SubSeq(t, 1, f - 1)

\* xmlBuildURI(href, base) on characters: an absolute reference is kept, a
\* fragment-only reference is put on the base, a relative path replaces the
\* last segment of the base
BuildURI(href, base) ==
    IF IsAbsolute(href) THEN href
    ELSE IF Len(href) > 0 /\ href[1] = "#" THEN StripFragment(base) \o href
    ELSE SubSeq(StripFragment(base), 1, LastIndexOf(StripFragment(base), "/")) \o href

\* the start URL given on the command line
start_url == "http://a.example.org/"
\* a page under the start URL
UrlA == "http://a.example.org/a"
\* a page outside the start URL
UrlX == "http://b.example.org/x"
\* the URLs of the web the crawl runs on
URLs == {start_url, UrlA, UrlX}

\* two more pages under the start URL, and the URLs of a site whose servers
\* answer every request for a URL the same way
UrlB == "http://a.example.org/b"
UrlC == "http://a.example.org/c"
SiteURLs == {start_url, UrlA, UrlB, UrlC}

\* the redirect a server may answer a request for a URL with: the start
\* page to a page below it, that page off the site, any other page back
Moved(url) == IF url = start_url THEN UrlA ELSE IF url = UrlA THEN UrlX ELSE start_url

\* the URLs a fetch of url can end on (CURLINFO_EFFECTIVE_URL)
EffectiveUrls(url) == {url, Moved(url)}

\* href attribute values that occur on the pages: the start URL, a relative
\* reference with a fragment, a page off the site, a URL that is not http(s)
HrefSeed == start_url
HrefRelA == "a#f"
HrefX == UrlX
HrefMailto == "mailto:x@a.example.org"
Hrefs == {HrefSeed, HrefRelA, HrefX, HrefMailto}

\* Content-Type header values; a missing header is the NULL pointer
CtNull == [null |-> TRUE, text |-> ""]
CtHtmlBare == [null |-> FALSE, text |-> "text/html"]
CtHtmlUtf8 == [null |-> FALSE, text |-> "text/html; charset=utf-8"]
CtXhtml == [null |-> FALSE, text |-> "application/xhtml+xml"]
CTypes == {CtNull, CtHtmlBare, CtHtmlUtf8, CtXhtml}

\* the link follow_links makes of an href found on the page at url: the href
\* resolved against url by xmlBuildURI, parsed, and saved without its fragment
LinkOf(href, url) == Name(StripFragment(BuildURI(Chars[href], Chars[url])))

\* LinkOf tabulated over the hrefs and page URLs that occur
LinkTable == [href \in Hrefs \cup SiteURLs, url \in URLs \cup SiteURLs |-> LinkOf(href, url)]

\* strlen(link) < 20 is skipped
MinLinkLen == 20

\* !strncmp(link, "http://", 7) || !strncmp(link, "https://", 8)
IsHttpLink(link) == StartsWith(link, "http://") \/ StartsWith(link, "https://")

\* is_html(ctype)
is_html(ctype) == ~ctype.null /\ StrLen(ctype.text) > 10 /\ StrStr(ctype.text, "text/html")

\* is_html tabulated over the content types that occur
HtmlTable == [ctype \in CTypes |-> is_html(ctype)]

\* mem->size() > 100
MinBodySize == 100

\* the response status of a page that is not broken
HttpOk == 200

(***************************************************************************)
(* NGraph::tGraph<string>                                                  *)
(***************************************************************************)
EmptyGraph == [nodes |-> {}, edges |-> {}]

\* network.find(link) != network.end()
Has(g, link) == link \in g.nodes

\* network.insert_edge(from, to): both vertices are created when missing
InsertEdge(g, from, to) == [nodes |-> g.nodes \cup {from, to},
                            edges |-> g.edges \cup {<<from, to>>}]

\* variant of Visited: the membership test always answers "not seen"
Visited_never(g, link) == FALSE

\* "If link has been visited already, skip adding to queue"
Visited(g, link) == Has(g, link)

\* variant of CapReached: the loop never breaks on the count
CapReached_never(count, cap) == FALSE

\* count++ == max_link_per_page, tested after a handle is added
CapReached(count, cap) == count = cap

(***************************************************************************)
(* follow_links                                                            *)
(***************************************************************************)
\* the for loop over the href nodes, from index i on; g is the graph so far,
\* added the links handed to curl_multi_add_handle so far, count their number
RECURSIVE FollowLoop(_, _, _, _, _, _, _)
FollowLoop(hrefs, url, cap, i, g, added, count) ==
    IF i > Len(hrefs)
    THEN [net |-> g, added |-> added, count |-> count]
    ELSE LET link == LinkTable[hrefs[i], url]
         IN IF StrLen(link) < MinLinkLen
            THEN FollowLoop(hrefs, url, cap, i + 1, g, added, count)
            ELSE IF IsHttpLink(link)
            THEN IF Visited(g, link)
                 THEN FollowLoop(hrefs, url, cap, i + 1, InsertEdge(g, url, link), added, count)
                 ELSE IF CapReached(count, cap)
                      THEN [net |-> InsertEdge(g, url, link),
                            added |-> Append(added, link), count |-> count + 1]
                      ELSE FollowLoop(hrefs, url, cap, i + 1, InsertEdge(g, url, link),
                                      Append(added, link), count + 1)
            ELSE FollowLoop(hrefs, url, cap, i + 1, g, added, count)

\* variant of follow_links: the start URL prefix test is left out
follow_links_any_base(hrefs, url, cap, g) == FollowLoop(hrefs, url, cap, 1, g, <<>>, 0)

\* follow_links(multi_handle, mem, url): the new graph, the links submitted
\* to the transport in order, and the returned count
follow_links(hrefs, url, cap, g) ==
    IF ~StartsWith(url, start_url)
    THEN [net |-> g, added |-> <<>>, count |-> 0]
    ELSE FollowLoop(hrefs, url, cap, 1, g, <<>>, 0)

(***************************************************************************)
(* Responses of the transport                                              *)
(***************************************************************************)
RECURSIVE SeqsUpTo(_, _)
SeqsUpTo(S, n) == IF n = 0 THEN {<<>>}
                  ELSE LET shorter == SeqsUpTo(S, n - 1)
                       IN shorter \cup {Append(q, x) : q \in {r \in shorter : Len(r) = n - 1}, x \in S}

\* the href attributes of a page, in document order
Bodies == SeqsUpTo(Hrefs, MaxHrefs)

\* what curl reports of a finished transfer: the CURLcode, the response
\* code, the content type, the body size, the effective URL and the hrefs
FailedResponses == [result : {"CURLE_COULDNT_CONNECT"}, status : {0}, ctype : {CtNull},
                    size : {0}, url : URLs, hrefs : {<<>>}]
ErrorResponses == [result : {"CURLE_OK"}, status : {404}, ctype : {CtHtmlUtf8},
                   size : {MinBodySize + 1}, url : URLs, hrefs : {<<HrefRelA>>}]
PlainResponses == [result : {"CURLE_OK"}, status : {HttpOk}, ctype : CTypes \ {CtHtmlUtf8},
                   size : {MinBodySize + 1}, url : URLs, hrefs : {<<HrefRelA>>}]
SmallResponses == [result : {"CURLE_OK"}, status : {HttpOk}, ctype : {CtHtmlUtf8},
                   size : {MinBodySize}, url : URLs, hrefs : {<<HrefRelA>>}]
PageResponses == [result : {"CURLE_OK"}, status : {HttpOk}, ctype : {CtHtmlUtf8},
                  size : {MinBodySize + 1}, url : URLs, hrefs : Bodies]
Responses == FailedResponses \cup ErrorResponses \cup PlainResponses
                 \cup SmallResponses \cup PageResponses

\* an HTML page of more than 100 bytes served at url with the given status
Page(url, status, hrefs) ==
    [result |-> "CURLE_OK", status |-> status, ctype |-> CtHtmlUtf8,
     size |-> MinBodySize + 1, url |-> url, hrefs |-> hrefs]

\* where the requests of a site end: UrlA may redirect to UrlC
Redirects == {[u \in SiteURLs |-> IF u = UrlA THEN t ELSE u] : t \in {UrlA, UrlC}}

\* the status the pages of a site are served with: UrlC may be missing
Statuses == {[u \in SiteURLs |-> IF u = UrlC THEN c ELSE HttpOk] : c \in {HttpOk, 404}}

\* the hrefs of the pages of a site: the start page links to UrlA and UrlB
SiteBodies ==
    {(start_url :> <<UrlA, UrlB>>) @@ (UrlA :> a) @@ (UrlB :> b) @@ (UrlC :> c) :
        a \in {<<>>, <<UrlB>>},
        b \in {<<UrlC>>, <<UrlC, start_url>>},
        c \in {<<>>, <<UrlB>>, <<UrlA>>}}

\* a site: a request for u ends on eff[u] and gets the page served there
SiteWeb(eff, status, body) ==
    [u \in SiteURLs |-> Page(eff[u], status[eff[u]], body[eff[u]])]

Webs == {SiteWeb(e, st, b) : e \in Redirects, st \in Statuses, b \in SiteBodies}

(***************************************************************************)
(* State                                                                   *)
(***************************************************************************)
VARIABLES
    pc,                 \* position of main: "loop", "perform", "read", "export", "done"
    max_requests,       \* -r
    max_total,          \* -t
    max_link_per_page,  \* -m
    network,            \* the graph
    handles,            \* the URL of every easy handle ever added, in order of creation
    inflight,           \* handles (indices) in the multi handle still transferring
    msgq,               \* handles whose CURLMSG_DONE message is not read yet
    pending,
    complete,
    still_running,
    pending_interrupt,
    broken_links,
    exit_code,          \* -1 while the process runs
    graph_written,      \* the graph was written to the output file
    web,                \* the answer of the servers to a request for each URL, for
                        \* the runs on a site that answers the same way every time
    last                \* history: the completion handled last in the inner loop
                        \* that is running, and what it did

vars == <<pc, max_requests, max_total, max_link_per_page, network, handles, inflight,
          msgq, pending, complete, still_running, pending_interrupt, broken_links,
          exit_code, graph_written, web, last>>

\* the servers answer every request afresh: no answer is fixed
NoWeb == <<>>

NoLast == [kind |-> "none", result |-> "", status |-> 0, url |-> "", html |-> FALSE,
           size |-> 0, links |-> 0, count |-> 0, fresh |-> 0]

\* the state when the run loop is first reached: arguments parsed, the
\* handle of the start URL added, the counters zero
Init ==
    /\ pc = "loop"
    /\ max_requests \in {1, MaxRequestsArg}
    /\ max_total \in {1, MaxTotalArg}
    /\ max_link_per_page \in {0, MaxLinkArg}
    /\ network = EmptyGraph
    /\ handles = <<start_url>>
    /\ inflight = {1}
    /\ msgq = {}
    /\ pending = 0
    /\ complete = 0
    /\ still_running = 1
    /\ pending_interrupt = 0
    /\ broken_links = <<>>
    /\ exit_code = -1
    /\ graph_written = FALSE
    /\ web = NoWeb
    /\ last = NoLast

(***************************************************************************)
(* main: the run loop                                                      *)
(***************************************************************************)
\* variant of LoopCond: still_running is not consulted
LoopCond_interrupt_only(running, interrupt) == interrupt = 0

\* variant of LoopCond: pending_interrupt is not consulted
LoopCond_running_only(running, interrupt) == running # 0

\* while (still_running && !pending_interrupt)
LoopCond(running, interrupt) == running # 0 /\ interrupt = 0

\* variant of Admission: every page is admitted
Admission_always(p, c, maxreq, maxtot) == TRUE

\* variant of Admission: max_total is not tested
Admission_requests_only(p, c, maxreq, maxtot) == p < maxreq

\* pending < max_requests && (complete + pending) < max_total
Admission(p, c, maxreq, maxtot) == p < maxreq /\ (c + p) < maxtot

\* variant of StillRunningAfter: the handler clears still_running
StillRunningAfter_zero(admit, running) == 0

\* variant of StillRunningAfter: still_running is left as curl_multi_perform set it
StillRunningAfter_kept(admit, running) == running

\* still_running = 1 inside the admission branch: the handles follow_links
\* added are not counted by the curl_multi_perform call of this iteration
StillRunningAfter(admit, running) == IF admit THEN 1 ELSE running

\* variant of Retire: the easy handle stays in the multi handle
Retire_kept(q, h) == q

\* curl_multi_remove_handle, curl_easy_cleanup and delete mem: handle h is gone
Retire(q, h) == q \ {h}

\* the number printed by "Summary: checked %d links, no broken links found."
SummaryCount(g) == Cardinality(g.nodes)

\* variant of Classify: a transport failure takes the broken-link branch
Classify_failure_broken(r) ==
    IF r.result = "CURLE_OK"
    THEN IF r.status = HttpOk
         THEN IF HtmlTable[r.ctype] /\ r.size > MinBodySize THEN "page" ELSE "other"
         ELSE "broken"
    ELSE "broken"

\* the branch of the completion handler a response takes
Classify(r) ==
    IF r.result = "CURLE_OK"
    THEN IF r.status = HttpOk
         THEN IF HtmlTable[r.ctype] /\ r.size > MinBodySize THEN "page" ELSE "other"
         ELSE "broken"
    ELSE "failed"

\* variant of ExitStatus: a failed fopen does not end the process with EXIT_FAILURE
ExitStatus_open_ignored(broken, opened) == IF Len(broken) # 0 THEN 1 ELSE 0

\* the process exit status: EXIT_FAILURE when fopen fails, else by broken_links.size()
ExitStatus(broken, opened) == IF ~opened THEN 1 ELSE IF Len(broken) # 0 THEN 1 ELSE 0

\* the links of a page that pass the length and scheme filters
EligibleLinks(hrefs, url) ==
    {l \in {LinkTable[hrefs[i], url] : i \in 1..Len(hrefs)} :
        StrLen(l) >= MinLinkLen /\ IsHttpLink(l)}

\* the eligible links of a page that are not nodes of the graph g
FreshLinks(hrefs, url, g) == EligibleLinks(hrefs, url) \ g.nodes


\* the loop condition is evaluated
LoopTest ==
    /\ pc = "loop"
    /\ pc' = IF LoopCond(still_running, pending_interrupt) THEN "perform" ELSE "export"
    /\ UNCHANGED <<web, max_requests, max_total, max_link_per_page, network, handles, inflight,
                   msgq, pending, complete, still_running, pending_interrupt, broken_links,
                   exit_code, graph_written, last>>

\* curl_multi_wait and curl_multi_perform: the transfers in done finish,
\* still_running becomes the number of transfers still running
Perform(done) ==
    /\ pc = "perform"
    /\ done \subseteq inflight
    /\ inflight' = inflight \ done
    /\ msgq' = msgq \cup done
    /\ still_running' = Cardinality(inflight \ done)
    /\ pc' = "read"
    /\ UNCHANGED <<web, max_requests, max_total, max_link_per_page, network, handles, pending,
                   complete, pending_interrupt, broken_links, exit_code, graph_written, last>>

\* a call that finishes no transfer (the wait timed out)
PerformIdle == Perform({})

\* a call that finishes at least one transfer
PerformProgress == \E done \in SUBSET inflight : done # {} /\ Perform(done)

\* curl_multi_info_read returns the CURLMSG_DONE message of handle h, whose
\* transfer ended as r; the body of the inner loop runs
HandleMsg(h, r) ==
    /\ pc = "read"
    /\ h \in msgq
    /\ LET kind == Classify(r)
           admit == kind = "page" /\ Admission(pending, complete, max_requests, max_total)
           fl == IF admit THEN follow_links(r.hrefs, r.url, max_link_per_page, network)
                 ELSE [net |-> network, added |-> <<>>, count |-> 0]
       IN /\ network' = fl.net
          /\ handles' = handles \o fl.added
          /\ inflight' = inflight \cup (Len(handles) + 1)..(Len(handles) + Len(fl.added))
          /\ still_running' = StillRunningAfter(admit, still_running)
          /\ broken_links' = IF kind = "broken" THEN Append(broken_links, <<r.status, r.url>>)
                             ELSE broken_links
          /\ pending' = pending + fl.count - 1
          /\ last' = [kind |-> IF kind = "page" THEN IF admit THEN "followed" ELSE "refused"
                               ELSE kind,
                      result |-> r.result, status |-> r.status, url |-> r.url,
                      html |-> HtmlTable[r.ctype], size |-> r.size,
                      links |-> IF kind = "page"
                                THEN Cardinality(EligibleLinks(r.hrefs, r.url)) ELSE 0,
                      count |-> fl.count,
                      fresh |-> IF admit THEN Cardinality(FreshLinks(r.hrefs, r.url, network))
                                ELSE 0]
    /\ msgq' = Retire(msgq, h)
    /\ complete' = complete + 1
    /\ UNCHANGED <<web, pc, max_requests, max_total, max_link_per_page, pending_interrupt, exit_code,
                   graph_written>>

\* curl_multi_info_read returns NULL: the inner loop ends
ReadDone ==
    /\ pc = "read"
    /\ msgq = {}
    /\ pc' = "loop"
    /\ last' = NoLast
    /\ UNCHANGED <<web, max_requests, max_total, max_link_per_page, network, handles, inflight,
                   msgq, pending, complete, still_running, pending_interrupt, broken_links,
                   exit_code, graph_written>>

\* SIGINT is delivered: sighandler runs. The flag is read by the loop
\* condition only, so a signal during the inner loop acts as one delivered
\* right after it
Interrupt ==
    /\ pc \in {"loop", "perform"}
    /\ pending_interrupt = 0
    /\ pending_interrupt' = 1
    /\ UNCHANGED <<web, pc, max_requests, max_total, max_link_per_page, network, handles, inflight,
                   msgq, pending, complete, still_running, broken_links, exit_code, graph_written, last>>

\* after the loop: summary, fopen of the output file (opened tells whether
\* it succeeds), the graph written, the process ends
Export(opened) ==
    /\ pc = "export"
    /\ graph_written' = opened
    /\ exit_code' = ExitStatus(broken_links, opened)
    /\ pc' = "done"
    /\ UNCHANGED <<web, max_requests, max_total, max_link_per_page, network, handles, inflight,
                   msgq, pending, complete, still_running, pending_interrupt, broken_links,
                   last>>

\* the inner loop reads one message, of any finished handle with any response
ReadMsg ==
    \E h \in msgq, r \in Responses : r.url \in EffectiveUrls(handles[h]) /\ HandleMsg(h, r)

\* the process ends, the output file writable or not
Finish == \E opened \in BOOLEAN : Export(opened)

Next ==
    \/ LoopTest
    \/ PerformIdle
    \/ PerformProgress
    \/ ReadMsg
    \/ ReadDone
    \/ Interrupt
    \/ Finish

Spec == Init /\ [][Next]_vars

\* the transport ends every transfer (CURLOPT_TIMEOUT, CURLOPT_CONNECTTIMEOUT),
\* so among the perform calls of a loop that keeps polling some report a
\* finished transfer; the steps of main itself are taken when they can be
FairSpec ==
    /\ Init /\ [][Next]_vars
    /\ SF_vars(PerformProgress)
    /\ WF_vars(PerformIdle \/ PerformProgress)
    /\ WF_vars(LoopTest)
    /\ WF_vars(ReadMsg)
    /\ WF_vars(ReadDone)
    /\ WF_vars(Finish)

(***************************************************************************)
(* Runs with the default caps on a site that answers every request for a   *)
(* URL the same way, without interrupt                                     *)
(***************************************************************************)
\* int max_requests = 500; int max_total = 20000; size_t max_link_per_page = 20
DefaultMaxRequests == 500
DefaultMaxTotal == 20000
DefaultMaxLinkPerPage == 20

SiteInit ==
    /\ pc = "loop"
    /\ max_requests = DefaultMaxRequests
    /\ max_total = DefaultMaxTotal
    /\ max_link_per_page = DefaultMaxLinkPerPage
    /\ network = EmptyGraph
    /\ handles = <<start_url>>
    /\ inflight = {1}
    /\ msgq = {}
    /\ pending = 0
    /\ complete = 0
    /\ still_running = 1
    /\ pending_interrupt = 0
    /\ broken_links = <<>>
    /\ exit_code = -1
    /\ graph_written = FALSE
    /\ web \in Webs
    /\ last = NoLast

\* the inner loop reads the message of any finished handle; the transfer
\* ended as the site answers for the URL of the handle
SiteReadMsg == \E h \in msgq : HandleMsg(h, web[handles[h]])

SiteNext ==
    \/ LoopTest
    \/ PerformIdle
    \/ PerformProgress
    \/ SiteReadMsg
    \/ ReadDone
    \/ Finish

SiteSpec == SiteInit /\ [][SiteNext]_vars

(***************************************************************************)
(* Properties                                                              *)
(***************************************************************************)
Min(a, b) == IF a < b THEN a ELSE b

\* the handles not yet retired: transferring, or done with the message unread
Unretired == inflight \cup msgq

\* C1: the number of fetches submitted to the transport and not yet
\* completed never exceeds max_requests
C1_InFlightWithinMaxRequests == Cardinality(inflight) <= max_requests

\* C2: the number of fetches ever submitted to the transport, the one of the
\* start URL included, never exceeds max_total
C2_SubmittedWithinMaxTotal == Len(handles) <= max_total

\* C3: no URL is submitted to the transport twice
C3_NoUrlSubmittedTwice ==
    \A i, j \in 1..Len(handles) : i # j => handles[i] # handles[j]

\* C4: a handled completion submits no fetch for a URL that was a node of the
\* graph, submits each URL at most once, removes no node, and the edges it
\* adds towards a URL that was a node all start at the handled page
C4_KnownLinkOnlyEdge ==
    [][complete' = complete + 1 =>
         LET new == (Len(handles) + 1)..Len(handles')
         IN /\ \A k \in new : handles'[k] \notin network.nodes
            /\ \A k, m \in new : k # m => handles'[k] # handles'[m]
            /\ network.nodes \subseteq network'.nodes
            /\ \A e \in network'.edges \ network.edges :
                   e[2] \in network.nodes => e[1] = last'.url]_vars

\* a page under the start URL was followed and linked to a URL already in
\* the graph
C4_Witness ==
    last.kind = "followed" /\ StartsWith(last.url, start_url) /\ last.links > last.fresh

\* C5: a followed page under the start URL schedules exactly
\* min(max_link_per_page, number of its fresh eligible links) fetches
C5_ScheduledIsMinOfCapAndFresh ==
    (last.kind = "followed" /\ StartsWith(last.url, start_url))
        => last.count = Min(max_link_per_page, last.fresh)

\* C6: under the fairness of FairSpec the run loop is left
C6_RunLoopTerminates == <>(pc = "export")

\* the run loop was left without an interrupt after several fetches
C6_Witness == pc = "export" /\ pending_interrupt = 0 /\ complete >= 3 /\ inflight = {}

\* C7: a handled completion appends its (status, effective URL) pair to the
\* broken-link list when the transfer succeeded with a status other than
\* 200 and leaves the list alone otherwise; no other step changes the list
C7_BrokenListExact ==
    [][IF complete' = complete + 1 /\ last'.result = "CURLE_OK" /\ last'.status # 200
       THEN broken_links' = Append(broken_links, <<last'.status, last'.url>>)
       ELSE broken_links' = broken_links]_vars

\* after a non-200 response was recorded, a transport failure was handled
\* and the list still holds the one entry
C7_Witness == Len(broken_links) = 1 /\ last.result = "CURLE_COULDNT_CONNECT" /\ complete >= 2

\* C8: the exit code is 0 exactly when no broken link was recorded and the
\* graph file was written, and 1 otherwise
C8_ExitCode ==
    pc = "done" =>
        /\ exit_code = 0 <=> (broken_links = <<>> /\ graph_written)
        /\ exit_code = 1 <=> (broken_links # <<>> \/ ~graph_written)

\* the process ended without a broken link although the file was not written
C8_Witness == pc = "done" /\ broken_links = <<>> /\ ~graph_written /\ complete > 0

\* C9: handling a completion whose effective URL does not begin with the
\* start URL leaves the graph alone and submits no fetch
C9_OffPrefixPageYieldsNothing ==
    [][(complete' = complete + 1 /\ ~StartsWith(last'.url, start_url))
          => network' = network /\ handles' = handles /\ inflight' = inflight]_vars

\* a page off the start URL with fresh eligible links passed admission
C9_Witness == last.kind = "followed" /\ ~StartsWith(last.url, start_url) /\ last.fresh > 0

\* C10: after a handled completion pending is the number of handles not yet
\* retired, complete the number of retired handles, and pending is not negative
C10_CountersExact ==
    (pc = "read" /\ complete >= 1) =>
        /\ pending = Cardinality(Unretired)
        /\ complete = Len(handles) - Cardinality(Unretired)
        /\ pending >= 0

\* the handled completion retires some handle: a step of the inner loop body
Handled == complete' = complete + 1

\* C11 as stated: when the process has ended every fetch ever submitted has
\* been retired
C11_AllRetiredAtEnd == pc = "done" => (Unretired = {} /\ complete = Len(handles))

\* C11 amended: a step of the completion handler retires exactly one handle
\* that was not retired before, incrementing complete and decrementing
\* pending once for it; no other step retires a handle or brings one back;
\* and unless an interrupt is delivered every submitted fetch gets retired
C11_RetiredOnceUnlessInterrupted ==
    /\ [][/\ Handled <=> Cardinality(Unretired \ Unretired') = 1
          /\ Cardinality(Unretired \ Unretired') <= 1
          /\ Handled => pending' = pending + (Len(handles') - Len(handles)) - 1
          /\ ~Handled => (complete' = complete /\ pending' = pending)
          /\ Unretired' \cap (1..Len(handles)) \subseteq Unretired]_vars
    /\ (Unretired # {}) ~> (Unretired = {} \/ pending_interrupt = 1)

\* without an interrupt all of several fetches were retired, the last of
\* them by the transport-failure branch
C11_Witness ==
    /\ pending_interrupt = 0 /\ Unretired = {} /\ complete = Len(handles)
    /\ Len(handles) >= 3 /\ last.kind = "failed"

\* C12: when the run loop is left with no interrupt flagged, every fetch
\* submitted has been retired
C12_LoopExitMeansDrained ==
    (pc \in {"export", "done"} /\ pending_interrupt = 0)
        => (Unretired = {} /\ complete = Len(handles))

\* the loop was left without interrupt after fetches scheduled by link
\* discovery were retired
C12_Witness == pc = "export" /\ pending_interrupt = 0 /\ Len(handles) >= 2 /\ Unretired = {}

\* C13: handling a status-200 response that fails admission, or is not
\* HTML, or has a body of at most 100 bytes, leaves the graph, the handles,
\* the broken-link list and still_running alone; complete goes up by one
\* and pending down by one
C13_NoDiscoveryFrame ==
    [][(/\ Handled
        /\ last'.result = "CURLE_OK" /\ last'.status = 200
        /\ \/ ~(pending < max_requests /\ complete + pending < max_total)
           \/ ~last'.html
           \/ last'.size <= 100)
          => /\ network' = network
             /\ handles' = handles
             /\ inflight' = inflight
             /\ broken_links' = broken_links
             /\ still_running' = still_running
             /\ pending' = pending - 1]_vars

\* an HTML page under the start URL with eligible links was refused by the
\* admission check
C13_Witness ==
    last.kind = "refused" /\ last.links > 0 /\ StartsWith(last.url, start_url)

\* C14 as stated: an HTML page under the start URL handled while a cap is
\* reached has the edges to its eligible links recorded
C14_OverCapEdgesRecorded ==
    [][(/\ Handled
        /\ last'.result = "CURLE_OK" /\ last'.status = 200 /\ last'.html /\ last'.size > 100
        /\ ~(pending < max_requests /\ complete + pending < max_total)
        /\ StartsWith(last'.url, start_url))
          => Cardinality({e \in network'.edges : e[1] = last'.url}) >= last'.links]_vars

\* C14 amended: the graph changes and handles are added only by handling an
\* HTML page of more than 100 bytes with status 200 while both admission
\* checks pass
C14_AdmissionGatesDiscovery ==
    [][(network' # network \/ handles' # handles)
          => /\ Handled
             /\ last'.result = "CURLE_OK" /\ last'.status = 200 /\ last'.html
             /\ last'.size > 100
             /\ pending < max_requests /\ complete + pending < max_total]_vars

\* a page was followed while complete + pending was one below max_total
C14_Witness ==
    /\ last.kind = "followed" /\ last.count > 0
    /\ max_total > 1 /\ complete + pending - last.count = max_total - 1

\* C15: the URL of every fetch submitted is a node of the graph
C15_SubmittedUrlsAreNodes == \A i \in 1..Len(handles) : handles[i] \in network.nodes

\* C16: handling one completion records at most max_link_per_page edges
C16_EdgesPerPageWithinCap ==
    [][Handled => Cardinality(network'.edges \ network.edges) <= max_link_per_page]_vars

\* once stopped: the interrupt flag is set and the iteration in progress is over
Stopped == pending_interrupt = 1 /\ pc \in {"loop", "export", "done"}

\* C17: once the flag is set and the iteration in progress is over, the loop
\* body is not entered again and the graph, the handles, the counters and
\* the broken-link list stay as they are
C17_InterruptHardStop ==
    [][Stopped => /\ Stopped'
                  /\ UNCHANGED <<network, handles, inflight, msgq, pending, complete,
                                 broken_links, still_running>>]_vars

\* the process ended on an interrupt with a transfer still running
C17_Witness == pc = "done" /\ pending_interrupt = 1 /\ inflight # {} /\ complete >= 1

\* C19: pending never exceeds max_requests + max_link_per_page, nor does the
\* value it has inside the handler between the addition of the follow_links
\* count and the decrement
C19_PendingOvershootBounded ==
    /\ [](pending <= max_requests + max_link_per_page)
    /\ [][Handled => pending' + 1 <= max_requests + max_link_per_page]_vars

\* a page scheduled several fetches and pending reached max_requests
C19_Witness == last.kind = "followed" /\ last.count >= 2 /\ pending >= max_requests

\* C20: at the end of a run without interrupt and without broken link the
\* number printed by the summary is the number of completed fetches
C20_SummaryCountsCompleted ==
    (pc = "done" /\ pending_interrupt = 0 /\ broken_links = <<>>)
        => SummaryCount(network) = complete

\* the elements of a sequence
Range(q) == {q[i] : i \in 1..Len(q)}

\* what a run leaves behind: the graph, the URLs fetched, the broken links
Outcome == [graph |-> network, fetched |-> Range(handles), broken |-> Range(broken_links)]

\* the outcome of the run on the site w in which the transfers complete one
\* at a time in the order the handles were created: handle i of hs is
\* handled next, g and broken are the graph and the broken links so far
RECURSIVE InOrder(_, _, _, _, _)
InOrder(w, i, g, hs, broken) ==
    IF i > Len(hs)
    THEN [graph |-> g, fetched |-> Range(hs), broken |-> broken]
    ELSE LET r == w[hs[i]]
             kind == Classify(r)
             fl == IF kind = "page"
                   THEN follow_links(r.hrefs, r.url, DefaultMaxLinkPerPage, g)
                   ELSE [net |-> g, added |-> <<>>, count |-> 0]
         IN InOrder(w, i + 1, fl.net, hs \o fl.added,
                    IF kind = "broken" THEN broken \cup {<<r.status, r.url>>} ELSE broken)

\* C18 as stated: on a site that answers every request the same way, with
\* the default caps and no interrupt, the final graph, the set of URLs
\* fetched and the set of broken links are those of the run that completes
\* the transfers in order of creation, whatever the order of completion
C18_OutcomeOrderIndependent ==
    pc = "export" => Outcome = InOrder(web, 1, EmptyGraph, <<start_url>>, {})

\* C18 amended: the final graph and the set of broken links are those of
\* the run that completes the transfers in order of creation
C18_GraphAndBrokenOrderIndependent ==
    pc = "export" =>
        LET ref == InOrder(web, 1, EmptyGraph, <<start_url>>, {})
        IN Outcome.graph = ref.graph /\ Outcome.broken = ref.broken

\* a run ended having fetched a URL that the run in order of creation does
\* not fetch
C18_Witness ==
    /\ pc = "export"
    /\ Outcome.fetched # InOrder(web, 1, EmptyGraph, <<start_url>>, {}).fetched
    /\ complete = Len(handles)

====
